---- MODULE Spec2Model ----
(***************************************************************************)
(* The data pipeline of streamlit_app/app.py: load the CSV, read the       *)
(* sidebar widgets, filter by date range, keep the reported rows,          *)
(* resample, detect strain days, render the KPI cards, the charts, the     *)
(* strain-day table and the data-quality table.  One script run is one     *)
(* pass through these stages; a widget change reruns the script.           *)
(*                                                                         *)
(* Dates are day numbers counted from 2024-01-01 = 1 (a Monday), so the    *)
(* Sundays are the multiples of 7.  A data frame is a record               *)
(* [cols, rows]: the set of its column names and the sequence of its rows. *)
(* Every row is a record with one field per column the script may read;    *)
(* a field whose column is absent from cols is never read.                 *)
(***************************************************************************)
EXTENDS Integers, Sequences, FiniteSets, TLC

VARIABLES df, granularity, metrics_to_show, start_date, end_date, pc,
          df_f, df_reported, df_plot, threshold, rendered, err,
          strain_days, flagged

vars == <<df, granularity, metrics_to_show, start_date, end_date, pc,
          df_f, df_reported, df_plot, threshold, rendered, err,
          strain_days, flagged>>

\* Largest number of rows of a generated dataset.
MaxRows == 3

\* pandas' missing value (NaN): loads and streaks are non-negative.
NaN == 0 - 999

\* The names bound by the script's import statements.
Imports == {"Path", "pd", "st"}

\* The columns the script reads unconditionally.
RequiredCols == {"date", "total_system_load", "cbp_custody", "hhs_care",
                 "net_hhs_intake", "is_reported"}

\* The columns the resampler aggregates.
AggCols == {"total_system_load", "cbp_custody", "hhs_care", "net_hhs_intake"}

\* The recognised data-quality flag columns, in the order the script lists them.
FlagNames == <<"flag_transfer_gt_cbp", "flag_discharge_gt_hhs", "flag_negative">>

\* quantile(0.85) = QuantileNum / QuantileDen.
QuantileNum == 17
QuantileDen == 20

\* Last day of each calendar month of 2024, as day numbers.
MonthEnds == <<31, 60, 91, 121, 152, 182>>

\* An exception: its type and the names it reports.
NoError == [type |-> "none", key |-> {}]
KeyError(c) == [type |-> "KeyError", key |-> c]
NameError(n) == [type |-> "NameError", key |-> n]
ValueError(c) == [type |-> "ValueError", key |-> c]

EmptyFrame == [cols |-> {}, rows |-> <<>>]

---------------------------------------------------------------------------
(* Sequence helpers *)

RECURSIVE InsertByDate(_, _)
InsertByDate(r, sorted) ==
    IF sorted = <<>> THEN <<r>>
    ELSE IF r.date < Head(sorted).date THEN <<r>> \o sorted
         ELSE <<Head(sorted)>> \o InsertByDate(r, Tail(sorted))

RECURSIVE SortByDate(_)
\* sort_values("date"): ascending by date (dates are unique).
SortByDate(rows) ==
    IF rows = <<>> THEN <<>>
    ELSE InsertByDate(Head(rows), SortByDate(Tail(rows)))

RECURSIVE Reverse(_)
Reverse(s) == IF s = <<>> THEN <<>> ELSE Reverse(Tail(s)) \o <<Head(s)>>

\* sort_values("date", ascending=False)
SortByDateDesc(rows) == Reverse(SortByDate(rows))

RECURSIVE InsertInt(_, _)
InsertInt(x, sorted) ==
    IF sorted = <<>> THEN <<x>>
    ELSE IF x <= Head(sorted) THEN <<x>> \o sorted
         ELSE <<Head(sorted)>> \o InsertInt(x, Tail(sorted))

RECURSIVE SortInts(_)
SortInts(s) == IF s = <<>> THEN <<>> ELSE InsertInt(Head(s), SortInts(Tail(s)))

RECURSIVE SumSeq(_)
SumSeq(s) == IF s = <<>> THEN 0 ELSE Head(s) + SumSeq(Tail(s))

\* The values of one column, row by row.
Column(rows, c) == [i \in 1..Len(rows) |-> rows[i][c]]

\* Series.dropna(): the non-missing values.
DropNaN(s) == SelectSeq(s, LAMBDA x : x # NaN)

---------------------------------------------------------------------------
(* Range filter and reported rows *)

\* The boolean mask of the range filter.
InRange(r, s, e) == r.date >= s /\ r.date <= e

\* Fault: the end bound taken as exclusive.
FilterRangeExclusive(rows, s, e) ==
    SelectSeq(rows, LAMBDA r : r.date >= s /\ r.date < e)

\* df[(df["date"] >= start_date) & (df["date"] <= end_date)]
FilterRange(rows, s, e) == SelectSeq(rows, LAMBDA r : InRange(r, s, e))

\* df_f[df_f["is_reported"] == True]
Reported(rows) == SelectSeq(rows, LAMBDA r : r.is_reported)

---------------------------------------------------------------------------
(* Resampler: set_index("date").resample(rule).agg({...}).reset_index() *)

\* The order in which agg() is given the columns.
AggOrder == <<"total_system_load", "cbp_custody", "hhs_care", "net_hhs_intake">>

\* The Sunday on or after day d: the label of d's bin under rule "W" (W-SUN).
WeekEnd(d) == d + ((7 - (d % 7)) % 7)

\* The last day of d's calendar month: the label of d's bin under rule "M".
MonthEnd(d) ==
    MonthEnds[CHOOSE i \in 1..Len(MonthEnds) :
                 d <= MonthEnds[i] /\ (i = 1 \/ d > MonthEnds[i - 1])]

\* The label of the bin that holds day d.
BinLabel(g, d) == IF g = "Weekly" THEN WeekEnd(d) ELSE MonthEnd(d)

\* The label of the bin before / after the bin labelled L.
PrevLabel(g, L) ==
    IF g = "Weekly" THEN L - 7
    ELSE IF L <= MonthEnds[1] THEN 0
         ELSE MonthEnds[(CHOOSE i \in 1..Len(MonthEnds) : MonthEnds[i] = L) - 1]

NextLabel(g, L) == IF g = "Weekly" THEN L + 7 ELSE MonthEnd(L + 1)

RECURSIVE BinLabels(_, _, _)
\* Every bin from the first row's bin to the last row's bin, empty or not.
BinLabels(g, L, last) ==
    IF L > last THEN <<>> ELSE <<L>> \o BinLabels(g, NextLabel(g, L), last)

\* Fault: bins closed on the left instead of the right.
InBinLeftClosed(g, r, L) == r.date >= PrevLabel(g, L) /\ r.date < L

\* Bins are closed on the right and labelled by their right edge.
InBin(g, r, L) == r.date > PrevLabel(g, L) /\ r.date <= L

\* "mean" skips missing values; <<sum, count>> stands for sum / count, and
\* <<0, 0>> for the NaN of a bin with no value.
Mean(values) == <<SumSeq(DropNaN(values)), Len(DropNaN(values))>>

\* "sum" skips missing values; the sum of no value is 0.
Sum(values) == SumSeq(DropNaN(values))

\* The aggregate of net_hhs_intake over one bin.
AggIntake(values) == Sum(values)

Bucket(g, rows, L) ==
    LET m == SelectSeq(rows, LAMBDA r : InBin(g, r, L))
    IN  [date              |-> L,
         total_system_load |-> Mean(Column(m, "total_system_load")),
         cbp_custody       |-> Mean(Column(m, "cbp_custody")),
         hhs_care          |-> Mean(Column(m, "hhs_care")),
         net_hhs_intake    |-> AggIntake(Column(m, "net_hhs_intake"))]

MinDate(rows) == CHOOSE d \in {rows[i].date : i \in 1..Len(rows)} :
                    \A j \in 1..Len(rows) : d <= rows[j].date
MaxDate(rows) == CHOOSE d \in {rows[i].date : i \in 1..Len(rows)} :
                    \A j \in 1..Len(rows) : d >= rows[j].date

\* The labels of the bins resample() emits for these rows.
EmittedLabels(g, rows) ==
    BinLabels(g, BinLabel(g, MinDate(rows)), BinLabel(g, MaxDate(rows)))

Resample(g, rows) ==
    IF rows = <<>> THEN <<>>
    ELSE LET labels == EmittedLabels(g, rows)
         IN  [i \in 1..Len(labels) |-> Bucket(g, rows, labels[i])]

\* A daily row as a chart point: each value is its own mean.
DailyPoint(r) ==
    LET one(v) == IF v = NaN THEN <<0, 0>> ELSE <<v, 1>>
    IN  [date              |-> r.date,
         total_system_load |-> one(r.total_system_load),
         cbp_custody       |-> one(r.cbp_custody),
         hhs_care          |-> one(r.hhs_care),
         net_hhs_intake    |-> r.net_hhs_intake]

---------------------------------------------------------------------------
(* Strain detection *)

\* Series.quantile(0.85) with linear interpolation, times QuantileDen (the
\* result is a multiple of 1/QuantileDen); NaN for a series with no value.
Quantile(values) ==
    LET v   == SortInts(DropNaN(values))
        n   == Len(v)
        pos == QuantileNum * (n - 1)
        lo  == pos \div QuantileDen
        fr  == pos % QuantileDen
    IN  IF n = 0 THEN NaN
        ELSE QuantileDen * v[lo + 1]
             + (IF fr = 0 THEN 0 ELSE fr * (v[lo + 2] - v[lo + 1]))

\* Fault: a load equal to the threshold counts as above it.
AtOrAboveThreshold(load, thr) ==
    load # NaN /\ thr # NaN /\ QuantileDen * load >= thr

\* total_system_load > threshold: a comparison with NaN is False.
AboveThreshold(load, thr) ==
    load # NaN /\ thr # NaN /\ QuantileDen * load > thr

\* Fault: a zero net intake counts as positive.
StrainFlagNonNegative(r, thr) ==
    QuantileDen * r.total_system_load > thr /\ r.total_system_load # NaN
    /\ thr # NaN /\ r.net_hhs_intake >= 0

StrainFlag(r, thr) ==
    AboveThreshold(r.total_system_load, thr) /\ r.net_hhs_intake > 0

\* Fault: the threshold taken over the whole file instead of the range.
ThresholdWholeFile(reported, loaded) == loaded

\* The rows the threshold is computed over.
ThresholdRows(reported, loaded) == reported

WithStrainFlag(rows, thr) ==
    [i \in 1..Len(rows) |->
        [rows[i] EXCEPT !.strain_flag = StrainFlag(rows[i], thr)]]

---------------------------------------------------------------------------
(* KPI cards *)

\* Fault: tail(1) without sort_values("date").
LatestUnsorted(rows) ==
    LET s == SelectSeq(rows, LAMBDA r : r.total_system_load # NaN)
    IN  IF s = <<>> THEN <<>> ELSE <<s[Len(s)]>>

\* dropna(subset=["total_system_load"]).sort_values("date").tail(1)
Latest(rows) ==
    LET s == SortByDate(SelectSeq(rows, LAMBDA r : r.total_system_load # NaN))
    IN  IF s = <<>> THEN <<>> ELSE <<s[Len(s)]>>

\* One rendered element: its name and the number it shows (NaN: none).
El(name, v) == [el |-> name, val |-> v]

\* The four numeric cards, in the order they are rendered.
CardCols == <<"total_system_load", "cbp_custody", "hhs_care", "net_hhs_intake">>

RECURSIVE Cards(_, _, _)
\* c1..c4.metric(..., int(row[col])) from card i on: the cards rendered and
\* the exception that stops them, if any.
Cards(row, cols, i) ==
    IF i > Len(CardCols) THEN [out |-> <<>>, err |-> NoError]
    ELSE IF CardCols[i] \notin cols
         THEN [out |-> <<>>, err |-> KeyError({CardCols[i]})]
    ELSE IF row[CardCols[i]] = NaN
         THEN [out |-> <<>>, err |-> ValueError({CardCols[i]})]
    ELSE LET rest == Cards(row, cols, i + 1)
         IN  [out |-> <<El(CardCols[i], row[CardCols[i]])>> \o rest.out,
              err |-> rest.err]

\* The name the streak test looks up for its default value.
StreakDefaultModule == "np"

\* The backlog-streak card: the column test short-circuits the lookup of the
\* default value.
StreakCard(row, cols) ==
    IF "backlog_streak" \in cols
    THEN IF StreakDefaultModule \notin Imports
         THEN [out |-> <<>>, err |-> NameError({StreakDefaultModule})]
         ELSE IF row.backlog_streak # NaN
              THEN [out |-> <<El("backlog_streak", row.backlog_streak)>>,
                    err |-> NoError]
              ELSE [out |-> <<El("backlog_streak_unavailable", NaN)>>,
                    err |-> NoError]
    ELSE [out |-> <<El("backlog_streak_unavailable", NaN)>>, err |-> NoError]

\* The whole KPI section.
KpiSection(frame) ==
    IF "total_system_load" \notin frame.cols
    THEN [out |-> <<>>, err |-> KeyError({"total_system_load"})]
    ELSE LET latest == Latest(frame.rows)
         IN  IF Len(latest) = 1
             THEN LET c == Cards(latest[1], frame.cols, 1)
                      s == StreakCard(latest[1], frame.cols)
                  IN  IF c.err # NoError THEN c
                      ELSE [out |-> c.out \o s.out, err |-> s.err]
             ELSE [out |-> <<El("info_no_reported_data", NaN)>>, err |-> NoError]

---------------------------------------------------------------------------
(* Charts, strain-day table, data-quality table *)

RECURSIVE RenderSteps(_)
\* Render the steps in order; a step that selects a column its frame lacks
\* raises KeyError and nothing after it is rendered.
RenderSteps(steps) ==
    IF steps = <<>> THEN [out |-> <<>>, err |-> NoError]
    ELSE LET st == Head(steps)
         IN  IF st.need \subseteq st.have
             THEN LET rest == RenderSteps(Tail(steps))
                  IN  [out |-> <<El(st.el, NaN)>> \o rest.out, err |-> rest.err]
             ELSE [out |-> <<>>, err |-> KeyError(st.need \ st.have)]

\* "Selected Metrics": a line chart of the chosen columns, or a hint.
SelectedMetricsStep(metrics, plot) ==
    IF metrics # {}
    THEN [el |-> "chart_selected_metrics", need |-> metrics, have |-> plot.cols]
    ELSE [el |-> "info_select_metric", need |-> {}, have |-> plot.cols]

ChartSteps(metrics, plot, reported) ==
    << SelectedMetricsStep(metrics, plot),
       [el |-> "chart_load_trend", need |-> {"total_system_load"}, have |-> plot.cols],
       [el |-> "chart_cbp_vs_hhs", need |-> {"total_system_load"}, have |-> plot.cols],
       [el |-> "bar_net_intake", need |-> {"net_hhs_intake"}, have |-> reported.cols],
       SelectedMetricsStep(metrics, plot) >>

\* The columns of the strain-day table.
StrainDayCols == {"date", "total_system_load", "net_hhs_intake", "cbp_custody",
                  "hhs_care"}

\* df_reported[df_reported["strain_flag"] == True][...].sort_values("date", ascending=False)
StrainDays(rows) == SortByDateDesc(SelectSeq(rows, LAMBDA r : r.strain_flag))

\* [c for c in [...] if c in df_reported.columns]
PresentFlags(cols) == SelectSeq(FlagNames, LAMBDA c : c \in cols)

\* df_reported[flag_cols].any(axis=1)
AnyFlag(r, flag_cols) == \E i \in 1..Len(flag_cols) : r[flag_cols[i]]

\* Fault: sort_values("date") with the default ascending order.
FlaggedAscending(rows, flag_cols) ==
    SortByDate(SelectSeq(rows, LAMBDA r : AnyFlag(r, flag_cols)))

\* df_reported[...any(axis=1)][["date"] + flag_cols].sort_values("date", ascending=False)
Flagged(rows, flag_cols) ==
    SortByDateDesc(SelectSeq(rows, LAMBDA r : AnyFlag(r, flag_cols)))

---------------------------------------------------------------------------
(* The script, stage by stage *)

\* The dates the sidebar's date_input can return: calendar days between the
\* dataset's first and last date.
Calendar == {5, 7, 8, 22, 33, 61}

Selectable(rows) ==
    {d \in Calendar \cup {rows[i].date : i \in 1..Len(rows)} :
        d >= MinDate(rows) /\ d <= MaxDate(rows)}

Granularities == {"Daily", "Weekly", "Monthly"}

\* The multiselect's default, and every metric selected.
MetricChoices == {{"total_system_load"}, AggCols}

\* An uncaught exception ends the run where it is raised.
Fail(e) == /\ err' = e
           /\ pc' = pc

\* pd.read_csv(path, parse_dates=["date"]) and the preview.
LoadData ==
    /\ pc = "load" /\ err = NoError
    /\ IF "date" \notin df.cols
       THEN /\ Fail(ValueError({"date"}))
            /\ UNCHANGED rendered
       ELSE /\ rendered' = <<El("preview", NaN)>>
            /\ pc' = "sidebar"
            /\ UNCHANGED err
    /\ UNCHANGED <<df, granularity, metrics_to_show, start_date, end_date,
                   df_f, df_reported, df_plot, threshold, strain_days, flagged>>

\* The sidebar widgets: granularity, metrics, date range.
Sidebar ==
    /\ pc = "sidebar" /\ err = NoError
    /\ \E g \in Granularities, m \in MetricChoices,
          s \in Selectable(df.rows), e \in Selectable(df.rows) :
          /\ s <= e
          /\ granularity' = g
          /\ metrics_to_show' = m
          /\ start_date' = s
          /\ end_date' = e
    /\ pc' = "filter"
    /\ UNCHANGED <<df, df_f, df_reported, df_plot, threshold, rendered, err,
                   strain_days, flagged>>

\* df_f and df_reported.
FilterStage ==
    /\ pc = "filter" /\ err = NoError
    /\ df_f' = [cols |-> df.cols,
                rows |-> FilterRange(df.rows, start_date, end_date)]
    /\ IF "is_reported" \notin df.cols
       THEN /\ Fail(KeyError({"is_reported"}))
            /\ UNCHANGED df_reported
       ELSE /\ df_reported' = [cols |-> df.cols, rows |-> Reported(df_f'.rows)]
            /\ pc' = "resample"
            /\ UNCHANGED err
    /\ UNCHANGED <<df, granularity, metrics_to_show, start_date, end_date,
                   df_plot, threshold, rendered, strain_days, flagged>>

\* df_plot: a copy of df_reported, resampled for Weekly and Monthly.
ResampleStage ==
    /\ pc = "resample" /\ err = NoError
    /\ IF granularity = "Daily"
       THEN /\ df_plot' = [cols |-> df_reported.cols,
                           rows |-> [i \in 1..Len(df_reported.rows) |->
                                        DailyPoint(df_reported.rows[i])]]
            /\ pc' = "strain"
            /\ UNCHANGED err
       ELSE IF ~(AggCols \subseteq df_reported.cols)
            THEN /\ Fail(KeyError(AggCols \ df_reported.cols))
                 /\ UNCHANGED df_plot
            ELSE /\ df_plot' = [cols |-> {"date"} \cup AggCols,
                                rows |-> Resample(granularity, df_reported.rows)]
                 /\ pc' = "strain"
                 /\ UNCHANGED err
    /\ UNCHANGED <<df, granularity, metrics_to_show, start_date, end_date,
                   df_f, df_reported, threshold, rendered, strain_days, flagged>>

\* The strain flag: the precomputed column if the CSV has one, otherwise
\* computed on the filtered reported rows.
StrainStage ==
    /\ pc = "strain" /\ err = NoError
    /\ IF "strain_flag" \in df_reported.cols
       THEN /\ pc' = "kpi"
            /\ UNCHANGED <<df_reported, threshold, err>>
       ELSE IF "total_system_load" \notin df_reported.cols
            THEN /\ Fail(KeyError({"total_system_load"}))
                 /\ UNCHANGED <<df_reported, threshold>>
            ELSE /\ threshold' = Quantile(Column(ThresholdRows(df_reported.rows, df.rows),
                                                 "total_system_load"))
                 /\ IF "net_hhs_intake" \notin df_reported.cols
                    THEN /\ Fail(KeyError({"net_hhs_intake"}))
                         /\ UNCHANGED df_reported
                    ELSE /\ df_reported' =
                               [cols |-> df_reported.cols \cup {"strain_flag"},
                                rows |-> WithStrainFlag(df_reported.rows, threshold')]
                         /\ pc' = "kpi"
                         /\ UNCHANGED err
    /\ UNCHANGED <<df, granularity, metrics_to_show, start_date, end_date,
                   df_f, df_plot, rendered, strain_days, flagged>>

\* The KPI cards of the latest reported day.
KpiStage ==
    /\ pc = "kpi" /\ err = NoError
    /\ LET k == KpiSection(df_reported)
       IN  /\ rendered' = rendered \o k.out
           /\ IF k.err # NoError
              THEN Fail(k.err)
              ELSE /\ pc' = "charts"
                   /\ UNCHANGED err
    /\ UNCHANGED <<df, granularity, metrics_to_show, start_date, end_date,
                   df_f, df_reported, df_plot, threshold, strain_days, flagged>>

\* The line and bar charts.
ChartsStage ==
    /\ pc = "charts" /\ err = NoError
    /\ LET c == RenderSteps(ChartSteps(metrics_to_show, df_plot, df_reported))
       IN  /\ rendered' = rendered \o c.out
           /\ IF c.err # NoError
              THEN Fail(c.err)
              ELSE /\ pc' = "strain_days"
                   /\ UNCHANGED err
    /\ UNCHANGED <<df, granularity, metrics_to_show, start_date, end_date,
                   df_f, df_reported, df_plot, threshold, strain_days, flagged>>

\* The strain-day table.
StrainDaysStage ==
    /\ pc = "strain_days" /\ err = NoError
    /\ IF ~(StrainDayCols \subseteq df_reported.cols)
       THEN /\ Fail(KeyError(StrainDayCols \ df_reported.cols))
            /\ UNCHANGED <<strain_days, rendered>>
       ELSE /\ strain_days' = StrainDays(df_reported.rows)
            /\ rendered' = rendered \o <<El("strain_days_count", Len(strain_days')),
                                        El("strain_days_table", NaN)>>
            /\ pc' = "quality"
            /\ UNCHANGED err
    /\ UNCHANGED <<df, granularity, metrics_to_show, start_date, end_date,
                   df_f, df_reported, df_plot, threshold, flagged>>

\* The data-quality table, only if a recognised flag column is present.
QualityStage ==
    /\ pc = "quality" /\ err = NoError
    /\ LET flag_cols == PresentFlags(df_reported.cols)
       IN  IF flag_cols # <<>>
           THEN /\ flagged' = Flagged(df_reported.rows, flag_cols)
                /\ rendered' = rendered \o <<El("quality_flags_table", NaN)>>
           ELSE UNCHANGED <<flagged, rendered>>
    /\ pc' = "done"
    /\ UNCHANGED <<df, granularity, metrics_to_show, start_date, end_date,
                   df_f, df_reported, df_plot, threshold, err, strain_days>>

\* A widget change reruns the script from the top, after a complete run or
\* after an exception; only the file stays.
Rerun ==
    /\ pc = "done" \/ err # NoError
    /\ pc' = "load"
    /\ granularity' = "Daily"
    /\ metrics_to_show' = {"total_system_load"}
    /\ start_date' = 0
    /\ end_date' = 0
    /\ df_f' = EmptyFrame
    /\ df_reported' = EmptyFrame
    /\ df_plot' = EmptyFrame
    /\ threshold' = NaN
    /\ rendered' = <<>>
    /\ err' = NoError
    /\ strain_days' = <<>>
    /\ flagged' = <<>>
    /\ UNCHANGED df

Next ==
    \/ LoadData
    \/ Sidebar
    \/ FilterStage
    \/ ResampleStage
    \/ StrainStage
    \/ KpiStage
    \/ ChartsStage
    \/ StrainDaysStage
    \/ QualityStage
    \/ Rerun

---------------------------------------------------------------------------
(* The CSV files the script is run on *)

\* A CSV row.  cbp_custody and hhs_care split the load; a missing load leaves
\* both missing.
MkRow(d, load, intake, rep, streak, strain, flags) ==
    [date                  |-> d,
     total_system_load     |-> load,
     cbp_custody           |-> IF load = NaN THEN NaN ELSE load \div 5,
     hhs_care              |-> IF load = NaN THEN NaN ELSE load - (load \div 5),
     net_hhs_intake        |-> intake,
     is_reported           |-> rep,
     backlog_streak        |-> streak,
     strain_flag           |-> strain,
     flag_transfer_gt_cbp  |-> "flag_transfer_gt_cbp" \in flags,
     flag_discharge_gt_hhs |-> "flag_discharge_gt_hhs" \in flags,
     flag_negative         |-> "flag_negative" \in flags]

\* n rows with distinct dates, in any order / in ascending date order, each
\* of one of the kinds K.
AnyOrder(dates, K, n) ==
    {f \in [1..n -> dates \X K] :
        \A i, j \in 1..n : i < j => f[i][1] # f[j][1]}

Ascending(dates, K, n) ==
    {f \in [1..n -> dates \X K] :
        \A i, j \in 1..n : i < j => f[i][1] < f[j][1]}

\* A day with source data, a reported day whose load is missing, a calendar
\* filler.
BasicKinds == {"reported", "noload", "filler"}

BasicRow(d, k) ==
    MkRow(d,
          IF k = "reported" THEN 10 * d ELSE NaN,
          IF k = "filler" THEN NaN ELSE d - 6,
          k # "filler",
          IF d = 7 \/ k = "filler" THEN NaN ELSE d - 5,
          FALSE,
          {})

BasicRows(f) == [i \in DOMAIN f |-> BasicRow(f[i][1], f[i][2])]

\* The dataset of the KPI example: 2024-01-01..2024-01-05, all reported.
KpiExample ==
    [cols |-> RequiredCols,
     rows |-> [i \in 1..5 |-> MkRow(i, 10 * i, 1, TRUE, NaN, FALSE, {})]]

\* Rows in any order, with and without a backlog_streak column.
KpiFiles ==
    {KpiExample} \cup
    {[cols |-> RequiredCols \cup opt, rows |-> BasicRows(f)] :
        f \in UNION {AnyOrder({5, 7, 8}, BasicKinds, n) : n \in 1..MaxRows},
        opt \in {{}, {"backlog_streak"}}}

\* Rows in any order over four dates.
FilterFiles ==
    {[cols |-> RequiredCols, rows |-> BasicRows(f)] :
        f \in UNION {AnyOrder({5, 7, 8, 22}, {"reported", "filler"}, n) :
                        n \in 1..MaxRows}}

\* Files that lack at most one required column.
SchemaFiles ==
    {[cols |-> (RequiredCols \ miss) \cup opt, rows |-> BasicRows(f)] :
        f \in UNION {Ascending({5, 7, 8}, {"reported", "filler"}, n) :
                        n \in 1..MaxRows},
        miss \in {{}} \cup {{c} : c \in RequiredCols},
        opt \in {{}, {"strain_flag"}}}

\* Rows spread over several weeks and months.
ResampleFiles ==
    {[cols |-> RequiredCols, rows |-> BasicRows(f)] :
        f \in UNION {Ascending(Calendar, {"reported", "filler"}, n) :
                        n \in 1..MaxRows}}

\* The load and the net intake of a row of the strain files.
StrainKinds == {<<10, 1>>, <<20, 1>>, <<20, 0>>, <<30, 1>>, <<NaN, 1>>}

StrainDates == <<5, 7, 8, 22, 33, 61>>

StrainRows(f) ==
    [i \in DOMAIN f |-> MkRow(StrainDates[i], f[i][1], f[i][2], TRUE, NaN, FALSE, {})]

\* The strain_flag column as a preprocessing step over the whole file
\* computes it.
Precomputed(rows) ==
    WithStrainFlag(rows, Quantile(Column(Reported(rows), "total_system_load")))

\* The dataset of the strain example: loads 10,20,30,40,90,85,88, intake 1.
StrainExampleLoads == <<10, 20, 30, 40, 90, 85, 88>>

StrainExample ==
    [cols |-> RequiredCols,
     rows |-> [i \in 1..7 |-> MkRow(i, StrainExampleLoads[i], 1, TRUE, NaN, FALSE, {})]]

\* All rows reported; with and without a precomputed strain_flag column.
StrainFiles ==
    {StrainExample} \cup
    {[cols |-> RequiredCols, rows |-> StrainRows(f)] :
        f \in UNION {[1..n -> StrainKinds] : n \in 1..MaxRows}} \cup
    {[cols |-> RequiredCols \cup {"strain_flag"},
      rows |-> Precomputed(StrainRows(f))] :
        f \in UNION {[1..n -> StrainKinds] : n \in 1..MaxRows}}

\* Whether a row of the flag files is reported, and the flags it raises.
FlagKinds == {<<TRUE, {}>>,
              <<TRUE, {"flag_transfer_gt_cbp"}>>,
              <<TRUE, {"flag_discharge_gt_hhs", "flag_negative"}>>,
              <<FALSE, {"flag_transfer_gt_cbp"}>>}

FlagRows(f) ==
    [i \in DOMAIN f |->
        MkRow(f[i][1], 10 * f[i][1], 1, f[i][2][1], NaN, FALSE, f[i][2][2])]

\* Rows in any order, with every subset of the flag columns.
FlagFiles ==
    {[cols |-> RequiredCols \cup present, rows |-> FlagRows(f)] :
        f \in UNION {AnyOrder({5, 7, 8}, FlagKinds, n) : n \in 1..MaxRows},
        present \in SUBSET {FlagNames[i] : i \in 1..Len(FlagNames)}}

InitWith(files) ==
    /\ df \in files
    /\ pc = "load"
    /\ granularity = "Daily"
    /\ metrics_to_show = {"total_system_load"}
    /\ start_date = 0
    /\ end_date = 0
    /\ df_f = EmptyFrame
    /\ df_reported = EmptyFrame
    /\ df_plot = EmptyFrame
    /\ threshold = NaN
    /\ rendered = <<>>
    /\ err = NoError
    /\ strain_days = <<>>
    /\ flagged = <<>>

Init == InitWith(KpiFiles)
InitFilter == InitWith(FilterFiles)
InitSchema == InitWith(SchemaFiles)
InitResample == InitWith(ResampleFiles)
InitStrain == InitWith(StrainFiles)
InitFlags == InitWith(FlagFiles)

Spec == Init /\ [][Next]_vars
SpecFilter == InitFilter /\ [][Next]_vars
SpecSchema == InitSchema /\ [][Next]_vars
SpecResample == InitResample /\ [][Next]_vars
SpecStrain == InitStrain /\ [][Next]_vars
SpecFlags == InitFlags /\ [][Next]_vars

---------------------------------------------------------------------------
(* Properties.  They are stated over the loaded file df and the widget     *)
(* values, not over the operators the stages use.                          *)

StageOrder == <<"load", "sidebar", "filter", "resample", "strain", "kpi",
                "charts", "strain_days", "quality", "done">>

StageNo(p) == CHOOSE i \in 1..Len(StageOrder) : StageOrder[i] = p

\* The stage ran to its end in the current run.
Completed(stage) == StageNo(pc) > StageNo(stage)

\* The stage ran, to its end or to an exception.
Ran(stage) == Completed(stage) \/ (pc = stage /\ err # NoError)

\* The rendered numbers of one element, and whether it is rendered at all.
Shown(name) ==
    {rendered[i].val : i \in {j \in DOMAIN rendered : rendered[j].el = name}}
IsRendered(name) == \E i \in DOMAIN rendered : rendered[i].el = name

\* Positions in the file of the rows in the selected range, of the reported
\* ones among them, and of those with a load.
RangeIdx ==
    {i \in DOMAIN df.rows :
        df.rows[i].date >= start_date /\ df.rows[i].date <= end_date}
ReportedIdx == {i \in RangeIdx : df.rows[i].is_reported}
LoadIdx == {i \in ReportedIdx : df.rows[i].total_system_load # NaN}

DatesOf(rows) == {rows[i].date : i \in DOMAIN rows}

\* The position in the file of the k-th row of df_f.
PosInFile(k) == CHOOSE i \in DOMAIN df.rows : df.rows[i] = df_f.rows[k]

FileAscending ==
    \A i, j \in DOMAIN df.rows : i < j => df.rows[i].date < df.rows[j].date
FileDescending ==
    \A i, j \in DOMAIN df.rows : i < j => df.rows[i].date > df.rows[j].date

\* Every row of df_f is a row of the file within [start, end], in file order.
FilterWithinAndOrdered ==
    /\ \A k \in DOMAIN df_f.rows :
          /\ \E i \in DOMAIN df.rows : df.rows[i] = df_f.rows[k]
          /\ df_f.rows[k].date >= start_date
          /\ df_f.rows[k].date <= end_date
    /\ \A k, l \in DOMAIN df_f.rows : k < l => PosInFile(k) < PosInFile(l)

\* df_f is a block of consecutive rows of the file.
FilterContiguous ==
    \A k \in DOMAIN df_f.rows :
        k < Len(df_f.rows) => PosInFile(k + 1) = PosInFile(k) + 1

\* C1 as stated: for rows in any order and any bounds, the range filter
\* returns rows within [start, end], in input order, forming a contiguous
\* block of the input.
C1_FilterContiguousAnyOrder ==
    Ran("filter") => FilterWithinAndOrdered /\ FilterContiguous

\* C1 amended: the range filter returns exactly the rows with
\* start <= date <= end (both bounds inclusive), in input order; they form a
\* contiguous block of the input when the input is in ascending or
\* descending date order.  Bounds in reverse order, which the date widget
\* does not return, select no row.
C1_FilterRange ==
    /\ Ran("filter") =>
          /\ FilterWithinAndOrdered
          /\ \A i \in RangeIdx : \E k \in DOMAIN df_f.rows : df_f.rows[k] = df.rows[i]
          /\ (FileAscending \/ FileDescending) => FilterContiguous
    /\ pc = "load" =>
          \A s, e \in Calendar : s > e => FilterRange(df.rows, s, e) = <<>>

\* A sorted three-row file filtered to a proper, non-empty part that ends
\* on the end bound itself.
C1_Witness ==
    /\ Ran("filter")
    /\ FileAscending
    /\ Len(df.rows) = 3
    /\ Len(df_f.rows) = 2
    /\ df_f.rows[2].date = end_date
    /\ df_f.rows[1].date = start_date

MissingCols == RequiredCols \ df.cols

\* C2: a file that lacks a required column ends in an error that names the
\* missing column, and neither the range filter nor any later stage runs
\* and nothing beyond the load preview is rendered.
C2_SchemaErrorHalts ==
    MissingCols # {} =>
        /\ ~Ran("filter")
        /\ err # NoError => err.key = MissingCols
        /\ \A i \in DOMAIN rendered : rendered[i].el = "preview"

\* The bucket labelled L is the one day d belongs to: the week ending on the
\* Sunday on or after d, or d's calendar month.
Owns(g, L, d) ==
    IF g = "Weekly"
    THEN L % 7 = 0 /\ L >= d /\ L - d < 7
    ELSE /\ \E i \in DOMAIN MonthEnds : MonthEnds[i] = L
         /\ L >= d
         /\ ~ \E i \in DOMAIN MonthEnds : MonthEnds[i] >= d /\ MonthEnds[i] < L

IntakeOf(rows) == SumSeq(Column(rows, "net_hhs_intake"))

\* C3: for Weekly and Monthly, the bucket sums of net_hhs_intake add up to
\* the sum over the reported rows in range, each reported row belongs to
\* exactly one emitted bucket (its week ending Sunday, its calendar month),
\* and each bucket's sum is the sum over the rows that belong to it.
C3_IntakeConserved ==
    (Completed("resample") /\ granularity # "Daily") =>
        /\ IntakeOf(df_plot.rows) = IntakeOf(df_reported.rows)
        /\ \A i \in DOMAIN df_reported.rows :
              Cardinality({j \in DOMAIN df_plot.rows :
                  Owns(granularity, df_plot.rows[j].date,
                       df_reported.rows[i].date)}) = 1
        /\ \A j \in DOMAIN df_plot.rows :
              df_plot.rows[j].net_hhs_intake =
                  IntakeOf(SelectSeq(df_reported.rows,
                      LAMBDA r : Owns(granularity, df_plot.rows[j].date, r.date)))

\* Three reported rows in two weekly buckets, one of them on a Sunday.
C3_Witness ==
    /\ Completed("resample")
    /\ granularity = "Weekly"
    /\ Len(df_reported.rows) = 3
    /\ Len(df_plot.rows) = 2
    /\ \E i \in DOMAIN df_reported.rows : df_reported.rows[i].date % 7 = 0

---------------------------------------------------------------------------
(* Strain *)

\* The loads of the reported rows in range, missing values left out.
RangeLoads == [k \in 1..Cardinality(LoadIdx) |->
                 df.rows[CHOOSE i \in LoadIdx :
                     Cardinality({j \in LoadIdx : j < i}) = k - 1].total_system_load]

\* The k-th smallest value (k from 0) of a sequence of numbers.
OrderStat(vals, k) ==
    CHOOSE v \in {vals[i] : i \in DOMAIN vals} :
        /\ Cardinality({i \in DOMAIN vals : vals[i] < v}) <= k
        /\ k < Cardinality({i \in DOMAIN vals : vals[i] <= v})

\* 100 times the 85th percentile of vals (not empty): linear interpolation
\* between the order statistics around position 0.85 * (n - 1).
Percentile85(vals) ==
    LET pos == 85 * (Len(vals) - 1)
        lo  == pos \div 100
        fr  == pos % 100
    IN  100 * OrderStat(vals, lo)
        + (IF fr = 0 THEN 0
           ELSE fr * (OrderStat(vals, lo + 1) - OrderStat(vals, lo)))

\* Row i of the file is a strain day of the selected range.
RangeStrain(i) ==
    /\ i \in LoadIdx
    /\ 100 * df.rows[i].total_system_load > Percentile85(RangeLoads)
    /\ df.rows[i].net_hhs_intake > 0

FlaggedDates ==
    {df_reported.rows[i].date :
        i \in {j \in DOMAIN df_reported.rows : df_reported.rows[j].strain_flag}}

StrainComputed == Completed("strain") /\ "strain_flag" \notin df.cols

C5_StrainFlag ==
    StrainComputed =>
        /\ DatesOf(df_reported.rows) = {df.rows[i].date : i \in ReportedIdx}
        /\ FlaggedDates = {df.rows[i].date : i \in {j \in LoadIdx : RangeStrain(j)}}
        /\ IF LoadIdx = {} THEN threshold = NaN
           ELSE 100 * threshold = QuantileDen * Percentile85(RangeLoads)
        /\ (df = StrainExample /\ start_date = 1 /\ end_date = 7) =>
               /\ threshold * 10 = 882 * QuantileDen
               /\ \A i \in DOMAIN df_reported.rows :
                     df_reported.rows[i].strain_flag
                         <=> df_reported.rows[i].total_system_load = 90

\* The seven-row example over its whole range, past strain detection.
C5_Witness ==
    /\ StrainComputed
    /\ df = StrainExample
    /\ start_date = 1
    /\ end_date = 7
    /\ FlaggedDates = {5}

---------------------------------------------------------------------------
(* KPI cards and data-quality table *)

\* The position in the file of the latest reported row in range with a load.
LatestIdx == CHOOSE i \in LoadIdx :
                \A j \in LoadIdx : df.rows[j].date <= df.rows[i].date

CardNames == {CardCols[i] : i \in DOMAIN CardCols}

C8_StreakSurfaced ==
    (Ran("kpi") /\ LoadIdx # {}) =>
        /\ err = NoError
        /\ IF /\ "backlog_streak" \in df.cols
              /\ df.rows[LatestIdx].backlog_streak # NaN
           THEN /\ Shown("backlog_streak") = {df.rows[LatestIdx].backlog_streak}
                /\ ~IsRendered("backlog_streak_unavailable")
           ELSE /\ IsRendered("backlog_streak_unavailable")
                /\ Shown("backlog_streak") = {}

FlagSet == {FlagNames[i] : i \in DOMAIN FlagNames}

\* Positions of the reported rows in range with a flag of a present column.
QualityIdx ==
    {i \in ReportedIdx : \E c \in FlagSet \cap df.cols : df.rows[i][c]}

\* C7: the quality stage looks only at the flag columns that are present;
\* with at least one present its report holds exactly the reported rows in
\* range with a present flag set, in strictly descending date order; with
\* none present there is no report and no error.
C7_QualityFlags ==
    Completed("quality") =>
        IF FlagSet \cap df.cols # {}
        THEN /\ IsRendered("quality_flags_table")
             /\ DatesOf(flagged) = {df.rows[i].date : i \in QualityIdx}
             /\ \A k, l \in DOMAIN flagged : k < l => flagged[k].date > flagged[l].date
        ELSE /\ ~IsRendered("quality_flags_table")
             /\ flagged = <<>>
             /\ err = NoError

\* Two flagged rows reported, while a reported row in range raises only a
\* flag whose column is absent.
C7_Witness ==
    /\ Completed("quality")
    /\ Len(flagged) = 2
    /\ Cardinality(ReportedIdx) = 3
    /\ FlagSet \cap df.cols # {}
    /\ \E i \in ReportedIdx \ QualityIdx : \E c \in FlagSet \ df.cols : df.rows[i][c]

====
